---- MODULE Spec2Model ----
(***************************************************************************)
(* A model of the VIA-JSON -> YOLO dataset converter:                      *)
(*   jsonINyolo.py  create_yolo_dataset (default pipeline),                *)
(*                  simple_create_dataset (simplified pipeline),           *)
(*                  convert_polygon_to_bbox and the helpers they call;     *)
(*   raspred.py     create_yolo_structure and its create_yolo_yaml.        *)
(*                                                                         *)
(* Strings that the code sorts or strips (class names, lines of            *)
(* classes.txt) are sequences of code points, so that sorted() and         *)
(* str.strip() are computed and not assumed.  Floats are exact rationals   *)
(* <<numerator, denominator>>; "{:.6f}" is the rounding to millionths.     *)
(***************************************************************************)
EXTENDS Integers, Sequences, FiniteSets, TLC

VARIABLES
    prog,             \* the entry point that runs: "bbox", "dataset", "structure", "simple"
    pc,               \* position inside that entry point
    \* ---- convert_polygon_to_bbox called on its own
    all_points_x, all_points_y, img_width, img_height, bbox,
    \* ---- inputs of the pipelines
    json_files,       \* the annotation files found, in enumeration order
    train_ratio,      \* numerator over RatioDen; the argument as the split reads it
    val_ratio,        \* numerator over RatioDen; the argument as the split reads it
    src_listing,      \* create_yolo_structure: os.listdir(<dataset>/images)
    src_labels,       \* create_yolo_structure: the files of <dataset>/labels
    src_classes,      \* create_yolo_structure: <dataset>/classes.txt
    \* ---- state of the pipelines
    class_mapping,    \* dict name -> id, as its (name, id) pairs in insertion order
    all_annotations,  \* dict filename -> entry
    jidx,             \* index of the next annotation file / record to process
    all_data,         \* simple_create_dataset: merged records, in dict order
    image_filenames,  \* the shuffled list of file names
    train_files, val_files, test_files,
    split_i, file_i,  \* cursor of the copy loops: split number, index in the split
    out_images,       \* files under <output>/<split>/images
    out_labels,       \* files under <output>/<split>/labels, with their lines
    classes_txt,      \* <output>/classes.txt
    dataset_yaml,     \* <output>/dataset.yaml
    io_failed,        \* file names whose copy or label write raised
    write_log,        \* every image copy / label write performed, in order
    processed_count, error_count

vars == <<prog, pc, all_points_x, all_points_y, img_width, img_height, bbox,
          json_files, train_ratio, val_ratio, src_listing, src_labels, src_classes,
          class_mapping, all_annotations, jidx, all_data, image_filenames,
          train_files, val_files, test_files, split_i, file_i,
          out_images, out_labels, classes_txt, dataset_yaml, io_failed, write_log,
          processed_count, error_count>>

(***************************************************************************)
(* Bounds of the model.                                                    *)
(***************************************************************************)
MaxDim == 2
MaxPts == 2
MaxJsons == 2
MaxRegions == 2
RatioDen == 4

(***************************************************************************)
(* Python built-ins the code relies on.                                    *)
(***************************************************************************)
Min2(a, b) == IF a <= b THEN a ELSE b
Max2(a, b) == IF a >= b THEN a ELSE b

RECURSIVE PyMin(_)
PyMin(s) == IF Len(s) = 1 THEN s[1] ELSE Min2(s[1], PyMin(Tail(s)))

RECURSIVE PyMax(_)
PyMax(s) == IF Len(s) = 1 THEN s[1] ELSE Max2(s[1], PyMax(Tail(s)))

\* s[lo:hi] for 0 <= lo: indices clamp to the length, an empty range is [].
PySlice(s, lo, hi) ==
    LET l == Min2(lo, Len(s))
        h == Min2(hi, Len(s))
    IN  IF h <= l THEN <<>> ELSE SubSeq(s, l + 1, h)

\* str < str: code point by code point, a proper prefix is smaller.
RECURSIVE StrLess(_, _)
StrLess(s, t) ==
    IF t = <<>> THEN FALSE
    ELSE IF s = <<>> THEN TRUE
    ELSE IF s[1] # t[1] THEN s[1] < t[1]
    ELSE StrLess(Tail(s), Tail(t))

\* sorted(list(a_set)) of strings.
RECURSIVE PySorted(_)
PySorted(S) ==
    IF S = {} THEN <<>>
    ELSE LET m == CHOOSE x \in S : \A y \in S \ {x} : StrLess(x, y)
         IN  <<m>> \o PySorted(S \ {m})

\* exact rationals <<n, d>>, d > 0
RSub(r, q) == <<r[1] * q[2] - q[1] * r[2], r[2] * q[2]>>
RAdd(r, q) == <<r[1] * q[2] + q[1] * r[2], r[2] * q[2]>>
RHalf(r) == <<r[1], 2 * r[2]>>
RTimes(r, k) == <<r[1] * k, r[2]>>
REqInt(r, k) == r[1] = k * r[2]
RInUnit(r) == 0 <= r[1] /\ r[1] <= r[2]

\* "{:.6f}".format(r): the nearest multiple of 10^-6, ties to even; kept as the
\* count of millionths.
Fmt6(r) ==
    LET n == r[1] * 1000000
        q == n \div r[2]
        rem2 == 2 * (n % r[2])
    IN  IF rem2 > r[2] \/ (rem2 = r[2] /\ q % 2 = 1) THEN q + 1 ELSE q

(***************************************************************************)
(* jsonINyolo.py: convert_polygon_to_bbox                                  *)
(***************************************************************************)
NoBox == <<>>

\* simple_create_dataset computes its box inline, without clipping.
simple_bbox(xs, ys, w, h) ==
    LET x_min == PyMin(xs)
        x_max == PyMax(xs)
        y_min == PyMin(ys)
        y_max == PyMax(ys)
    IN  IF x_min >= x_max \/ y_min >= y_max THEN NoBox
        ELSE LET x_center == <<x_min + x_max, 2 * w>>
                 y_center == <<y_min + y_max, 2 * h>>
                 width == <<x_max - x_min, w>>
                 height == <<y_max - y_min, h>>
             IN  IF ~(RInUnit(x_center) /\ RInUnit(y_center)
                      /\ RInUnit(width) /\ RInUnit(height))
                 THEN NoBox
                 ELSE <<x_center, y_center, width, height>>

\* variant: the bounds are not clipped to the image
ConvertNoClip(xs, ys, w, h) == simple_bbox(xs, ys, w, h)

convert_polygon_to_bbox(xs, ys, w, h) ==
    LET x_min == Max2(0, PyMin(xs))
        x_max == Min2(w, PyMax(xs))
        y_min == Max2(0, PyMin(ys))
        y_max == Min2(h, PyMax(ys))
    IN  IF x_min >= x_max \/ y_min >= y_max THEN NoBox
        ELSE LET x_center == <<x_min + x_max, 2 * w>>
                 y_center == <<y_min + y_max, 2 * h>>
                 width == <<x_max - x_min, w>>
                 height == <<y_max - y_min, h>>
             IN  IF ~(RInUnit(x_center) /\ RInUnit(y_center)
                      /\ RInUnit(width) /\ RInUnit(height))
                 THEN NoBox
                 ELSE <<x_center, y_center, width, height>>

(***************************************************************************)
(* Strings, file names and the input tree.                                 *)
(***************************************************************************)
crab == <<99, 114, 97, 98>>
eel == <<101, 101, 108>>
fish == <<102, 105, 115, 104>>
Zander == <<90, 97, 110, 100, 101, 114>>
crayfish == <<99, 114, 97, 121, 102, 105, 115, 104>>
unknown == <<117, 110, 107, 110, 111, 119, 110>>
empty_str == <<>>

a_jpg == [base |-> "a", ext |-> "jpg"]
a_png == [base |-> "a", ext |-> "png"]
b_jpg == [base |-> "b", ext |-> "JPG"]
c_jpg == [base |-> "c", ext |-> "jpg"]
d_jpg == [base |-> "d", ext |-> "jpg"]
notes_txt == [base |-> "notes", ext |-> "txt"]

\* os.path.splitext(filename)[0]
splitext0(filename) == filename.base

\* The images under the input directory: what find_image_file and
\* parse_image_size answer for a file name.  c.jpg is not there, d.jpg is
\* there and cannot be opened.
Disk(filename) ==
    CASE filename = c_jpg -> [found |-> FALSE, readable |-> FALSE, size |-> <<1, 1>>]
      [] filename = d_jpg -> [found |-> TRUE, readable |-> FALSE, size |-> <<1, 1>>]
      [] filename = b_jpg -> [found |-> TRUE, readable |-> TRUE, size |-> <<3, 3>>]
      [] OTHER -> [found |-> TRUE, readable |-> TRUE, size |-> <<4, 4>>]

Polygon(xs, ys) == [name |-> "polygon", all_points_x |-> xs, all_points_y |-> ys]
RectShape == [name |-> "rect", x |-> 1, y |-> 1]
Region(shape, attrs) == [shape_attributes |-> shape, region_attributes |-> attrs]

RegCrab == Region(Polygon(<<1, 3, 2>>, <<1, 1, 3>>), [name |-> crab])
RegFishClipped == Region(Polygon(<<-1, 2>>, <<1, 5>>), [class |-> fish, label |-> crab])
RegZander == Region(Polygon(<<0, 1>>, <<2, 3>>), [object |-> Zander, name |-> eel])
RegNoKey == Region(Polygon(<<1, 2>>, <<1, 2>>), [type |-> crab])
RegUnknownLiteral == Region(Polygon(<<1, 2>>, <<1, 2>>), [label |-> unknown])
RegEmptyName == Region(Polygon(<<1, 2>>, <<1, 2>>), [name |-> empty_str])
RegDegenerate == Region(Polygon(<<2, 2>>, <<1, 3>>), [object |-> crab])
RegRectEel == Region(RectShape, ("1" :> eel))

RegionCatalog == {RegCrab, RegFishClipped, RegZander, RegNoKey, RegUnknownLiteral,
                  RegEmptyName, RegDegenerate, RegRectEel}

ImageData(key, filename, has_regions, regions) ==
    [key |-> key, filename |-> filename, has_regions |-> has_regions, regions |-> regions]

JsonFile(data) == [parse_ok |-> TRUE, data |-> data]
JBad == [parse_ok |-> FALSE, data |-> <<>>]
J1 == JsonFile(<<ImageData("a.jpg", a_jpg, TRUE, <<RegCrab, RegNoKey, RegFishClipped>>),
                 ImageData("b.JPG", b_jpg, FALSE, <<>>)>>)
J2 == JsonFile(<<ImageData("a.jpg", a_jpg, TRUE, <<RegEmptyName, RegDegenerate>>),
                 ImageData("a.png", a_png, TRUE, <<RegFishClipped>>)>>)
J3 == JsonFile(<<ImageData("c.jpg", c_jpg, TRUE, <<RegRectEel>>),
                 ImageData("d.jpg", d_jpg, TRUE, <<RegCrab>>),
                 ImageData("b.JPG", b_jpg, TRUE, <<RegUnknownLiteral, RegZander>>)>>)
J4 == JsonFile(<<ImageData("a.png#2", a_png, TRUE, <<>>),
                 ImageData("a.jpg", a_jpg, TRUE, <<RegCrab>>)>>)

JsonCatalog == {JBad, J1, J2, J3, J4}

SeqsUpTo(S, n) == UNION {[1..k -> S] : k \in 0..n}

\* One annotation file with one image whose regions are any list.
GeneratedJsons ==
    {JsonFile(<<ImageData("a.jpg", a_jpg, TRUE, rs)>>) : rs \in SeqsUpTo(RegionCatalog, MaxRegions)}

JsonInputs == SeqsUpTo(JsonCatalog, MaxJsons) \cup {<<j>> : j \in GeneratedJsons}

RatioInputs == {r \in (0..RatioDen) \X (0..RatioDen) : r[1] + r[2] <= RatioDen}

(***************************************************************************)
(* Python dicts.                                                           *)
(***************************************************************************)
EmptyDict == <<>>
DictSet(d, k, v) == [x \in DOMAIN d \cup {k} |-> IF x = k THEN v ELSE d[x]]

\* dict(e, **d): the keys of d keep their values
DictKeepFirst(d, e) == [x \in DOMAIN d \cup DOMAIN e |-> IF x \in DOMAIN d THEN d[x] ELSE e[x]]

\* d.update(e)
DictUpdate(d, e) == [x \in DOMAIN d \cup DOMAIN e |-> IF x \in DOMAIN e THEN e[x] ELSE d[x]]

\* a dict kept as its (key, value) pairs in insertion order
HasKey(m, k) == \E i \in 1..Len(m) : m[i][1] = k
Lookup(m, k) == m[CHOOSE i \in 1..Len(m) : m[i][1] = k][2]
Keys(m) == [i \in 1..Len(m) |-> m[i][1]]

(***************************************************************************)
(* jsonINyolo.py: extract_class_from_region, create_class_mapping_from_jsons*)
(***************************************************************************)
ClassKeys == <<"1", "object", "name", "class", "label">>

extract_class_from_region(region_attrs) ==
    LET present == {i \in 1..Len(ClassKeys) : ClassKeys[i] \in DOMAIN region_attrs}
    IN  IF present = {} THEN unknown
        ELSE region_attrs[ClassKeys[CHOOSE i \in present : \A j \in present : i <= j]]

Range(s) == {s[i] : i \in 1..Len(s)}

\* the class names one annotation file adds to all_classes
FileClasses(json) ==
    IF ~json.parse_ok THEN {}
    ELSE {extract_class_from_region(region.region_attributes) :
            region \in UNION {Range(image_data.regions) :
                                image_data \in {x \in Range(json.data) : x.has_regions}}}
         \ {empty_str, unknown}

\* variant: only the first region of each image is indexed
CollectFirstRegionOnly(files) ==
    UNION {IF ~json.parse_ok THEN {}
           ELSE {extract_class_from_region(image_data.regions[1].region_attributes) :
                   image_data \in {x \in Range(json.data) : x.has_regions /\ x.regions # <<>>}}
                \ {empty_str, unknown} : json \in Range(files)}

collect_classes(files) == UNION {FileClasses(json) : json \in Range(files)}

Enumerate(sorted_classes) == [i \in 1..Len(sorted_classes) |-> <<sorted_classes[i], i - 1>>]

\* The names in the order the regions are met, each once.
RECURSIVE Dedup(_)
Dedup(s) ==
    IF s = <<>> THEN <<>>
    ELSE LET r == Dedup(SubSeq(s, 1, Len(s) - 1))
         IN  IF s[Len(s)] \in Range(r) THEN r ELSE Append(r, s[Len(s)])

RECURSIVE Flatten(_)
Flatten(ss) == IF ss = <<>> THEN <<>> ELSE Head(ss) \o Flatten(Tail(ss))

EncounterOrder(files) ==
    LET names(json) ==
            IF ~json.parse_ok THEN <<>>
            ELSE Flatten([i \in 1..Len(json.data) |->
                    IF json.data[i].has_regions
                    THEN [k \in 1..Len(json.data[i].regions) |->
                            extract_class_from_region(json.data[i].regions[k].region_attributes)]
                    ELSE <<>>])
    IN  SelectSeq(Dedup(Flatten([i \in 1..Len(files) |-> names(files[i])])),
                  LAMBDA n : n # empty_str /\ n # unknown)

\* variant: ids in encounter order, without sorted()
CreateMappingUnsorted(files) == Enumerate(EncounterOrder(files))

create_class_mapping_from_jsons(files) == Enumerate(PySorted(collect_classes(files)))

(***************************************************************************)
(* jsonINyolo.py: process_single_json                                      *)
(***************************************************************************)
\* the unknown-class test of one region
UnknownClass(region, mapping) ==
    ~HasKey(mapping, extract_class_from_region(region.region_attributes))

\* what a region of a known class appends to yolo_annotations
RegionLines(region, mapping, size) ==
    LET shape_attrs == region.shape_attributes
        class_id == Lookup(mapping, extract_class_from_region(region.region_attributes))
    IN  IF "all_points_x" \in DOMAIN shape_attrs /\ "all_points_y" \in DOMAIN shape_attrs
        THEN LET b == convert_polygon_to_bbox(shape_attrs.all_points_x,
                                              shape_attrs.all_points_y, size[1], size[2])
             IN  IF b = NoBox THEN <<>>
                 ELSE << <<class_id, Fmt6(b[1]), Fmt6(b[2]), Fmt6(b[3]), Fmt6(b[4])>> >>
        ELSE <<>>

\* variant: an unknown class ends the loop (break for continue)
RECURSIVE RegionLoopBreaks(_, _, _)
RegionLoopBreaks(regions, mapping, size) ==
    IF regions = <<>> THEN <<>>
    ELSE IF UnknownClass(Head(regions), mapping) THEN <<>>
    ELSE RegionLines(Head(regions), mapping, size)
         \o RegionLoopBreaks(Tail(regions), mapping, size)

\* the loop over image_data['regions'].items()
RECURSIVE RegionLoop(_, _, _)
RegionLoop(regions, mapping, size) ==
    IF regions = <<>> THEN <<>>
    ELSE IF UnknownClass(Head(regions), mapping)
         THEN RegionLoop(Tail(regions), mapping, size)
    ELSE RegionLines(Head(regions), mapping, size)
         \o RegionLoop(Tail(regions), mapping, size)

Entry(filename, yolo_annotations, size) ==
    [image_path |-> filename, yolo_annotations |-> yolo_annotations, image_size |-> size]

\* variant: an image without label lines is not recorded
ImageStepDropsEmpty(annotations, image_data, mapping) ==
    LET d == Disk(image_data.filename)
        yolo == RegionLoop(image_data.regions, mapping, d.size)
    IN  IF ~d.found \/ ~d.readable \/ yolo = <<>> THEN annotations
        ELSE DictSet(annotations, image_data.filename,
                     Entry(image_data.filename, yolo, d.size))

\* one iteration of the loop over data.items()
ImageStep(annotations, image_data, mapping) ==
    LET d == Disk(image_data.filename)
    IN  IF ~d.found THEN annotations
        ELSE IF ~d.readable THEN annotations
        ELSE LET yolo_annotations ==
                     IF image_data.has_regions /\ image_data.regions # <<>>
                     THEN RegionLoop(image_data.regions, mapping, d.size)
                     ELSE <<>>
             IN  DictSet(annotations, image_data.filename,
                         Entry(image_data.filename, yolo_annotations, d.size))

RECURSIVE ImageLoop(_, _, _)
ImageLoop(annotations, data, mapping) ==
    IF data = <<>> THEN annotations
    ELSE ImageLoop(ImageStep(annotations, Head(data), mapping), Tail(data), mapping)

process_single_json(json, mapping) ==
    IF ~json.parse_ok THEN EmptyDict ELSE ImageLoop(EmptyDict, json.data, mapping)

(***************************************************************************)
(* Variable groups and the values of the variables an entry point leaves   *)
(* alone.                                                                  *)
(***************************************************************************)
bboxVars == <<all_points_x, all_points_y, img_width, img_height, bbox>>
inputVars == <<json_files, train_ratio, val_ratio, src_listing, src_labels, src_classes>>
annVars == <<class_mapping, all_annotations, jidx, all_data>>
splitVars == <<image_filenames, train_files, val_files, test_files>>
cursorVars == <<split_i, file_i>>
fileVars == <<out_images, out_labels, io_failed, write_log>>
descVars == <<classes_txt, dataset_yaml>>
countVars == <<processed_count, error_count>>

NoFile == [exists |-> FALSE, lines |-> <<>>]
TextFile(lines) == [exists |-> TRUE, lines |-> lines]
NoYaml == [exists |-> FALSE, nc |-> 0, names |-> <<>>]
NoDir == [exists |-> FALSE, files |-> {}]
Dir(files) == [exists |-> TRUE, files |-> files]

BBoxIdle ==
    /\ all_points_x = <<>> /\ all_points_y = <<>>
    /\ img_width = 1 /\ img_height = 1 /\ bbox = NoBox

StateIdle ==
    /\ class_mapping = <<>> /\ all_annotations = EmptyDict /\ jidx = 1 /\ all_data = <<>>
    /\ image_filenames = <<>> /\ train_files = <<>> /\ val_files = <<>> /\ test_files = <<>>
    /\ split_i = 1 /\ file_i = 1
    /\ out_images = {} /\ out_labels = {} /\ io_failed = {} /\ write_log = <<>>
    /\ dataset_yaml = NoYaml
    /\ processed_count = 0 /\ error_count = 0

(***************************************************************************)
(* convert_polygon_to_bbox on arbitrary integer polygons.                  *)
(***************************************************************************)
InitBBox ==
    /\ prog = "bbox" /\ pc = "start"
    /\ img_width \in 1..MaxDim /\ img_height \in 1..MaxDim
    /\ \E n \in 1..MaxPts :
          /\ all_points_x \in [1..n -> (-1)..(img_width + 1)]
          /\ all_points_y \in [1..n -> (-1)..(img_height + 1)]
    /\ bbox = NoBox
    /\ json_files = <<>> /\ train_ratio = 0 /\ val_ratio = 0
    /\ src_listing = NoDir /\ src_labels = NoDir /\ src_classes = NoFile
    /\ classes_txt = NoFile
    /\ StateIdle

BBoxConvert ==
    /\ prog = "bbox" /\ pc = "start"
    /\ bbox' = convert_polygon_to_bbox(all_points_x, all_points_y, img_width, img_height)
    /\ pc' = "done"
    /\ UNCHANGED <<prog, all_points_x, all_points_y, img_width, img_height, inputVars,
                   annVars, splitVars, cursorVars, fileVars, descVars, countVars>>

NextBBox == BBoxConvert

SpecBBox == InitBBox /\ [][NextBBox]_vars

(***************************************************************************)
(* The split arithmetic and the copy cursor, shared by create_yolo_dataset *)
(* and create_yolo_structure (the same lines in both files).               *)
(***************************************************************************)
\* int(total * ratio), ratio = num / RatioDen
Count(total, num) == (total * num) \div RatioDen

Perms(S) ==
    {p \in [1..Cardinality(S) -> S] : \A i, j \in 1..Cardinality(S) : i # j => p[i] # p[j]}

split_train(files, tr, vr) == PySlice(files, 0, Count(Len(files), tr))

\* variant: the upper index of the val slice lacks train_count
SplitValNoOffset(files, tr, vr) ==
    PySlice(files, Count(Len(files), tr), Count(Len(files), vr))

split_val(files, tr, vr) ==
    PySlice(files, Count(Len(files), tr), Count(Len(files), tr) + Count(Len(files), vr))

split_test(files, tr, vr) ==
    PySlice(files, Count(Len(files), tr) + Count(Len(files), vr), Len(files))

SplitName(i) == <<"train", "val", "test">>[i]

\* The first position at or after (si, fi) that holds a file; split 4 is the end.
\* An empty split is passed over (copy_to_split of an empty list, `if files:`).
RECURSIVE Advance(_, _, _)
Advance(splits, si, fi) ==
    IF si > 3 THEN <<4, 1>>
    ELSE IF fi <= Len(splits[si]) THEN <<si, fi>>
    ELSE Advance(splits, si + 1, 1)

Splits == <<train_files, val_files, test_files>>
CurFile == Splits[split_i][file_i]

\* open(path, 'w') / shutil.copy2 onto a label path: the file is replaced.
WriteLabel(labels, split, name, lines) ==
    {l \in labels : ~(l.split = split /\ l.name = name)}
        \cup {[split |-> split, name |-> name, lines |-> lines]}

LogEntry(op, split, filename, lines, rec) ==
    [op |-> op, split |-> split, filename |-> filename, lines |-> lines, rec |-> rec]

(***************************************************************************)
(* jsonINyolo.py: create_yolo_dataset                                      *)
(***************************************************************************)
InitDataset ==
    /\ prog = "dataset" /\ pc = "start"
    /\ json_files \in JsonInputs
    /\ train_ratio = 0 /\ val_ratio = 0
    /\ src_listing = NoDir /\ src_labels = NoDir /\ src_classes = NoFile
    /\ classes_txt = NoFile
    /\ BBoxIdle /\ StateIdle

\* "No JSON files found!": return before anything is written
DS_NoJsonFiles ==
    /\ prog = "dataset" /\ pc = "start"
    /\ json_files = <<>>
    /\ pc' = "returned"
    /\ UNCHANGED <<prog, bboxVars, inputVars, annVars, splitVars, cursorVars, fileVars,
                   descVars, countVars>>

DS_CreateClassMapping ==
    /\ prog = "dataset" /\ pc = "start"
    /\ json_files # <<>>
    /\ class_mapping' = create_class_mapping_from_jsons(json_files)
    /\ pc' = "process"
    /\ UNCHANGED <<prog, bboxVars, inputVars, all_annotations, jidx, all_data, splitVars,
                   cursorVars, fileVars, descVars, countVars>>

\* variant: an entry already there is kept (first write wins)
MergeKeepsFirst(merged, annotations) == DictKeepFirst(merged, annotations)

\* the merge of one file's annotations: all_annotations.update(annotations)
merge_annotations(merged, annotations) == DictUpdate(merged, annotations)

\* one iteration of `for json_path in json_files`
DS_ProcessJson ==
    /\ prog = "dataset" /\ pc = "process"
    /\ jidx <= Len(json_files)
    /\ all_annotations' =
          merge_annotations(all_annotations,
                            process_single_json(json_files[jidx], class_mapping))
    /\ jidx' = jidx + 1
    /\ UNCHANGED <<prog, pc, bboxVars, inputVars, class_mapping, all_data, splitVars,
                   cursorVars, fileVars, descVars, countVars>>

\* list(all_annotations.keys()), random.shuffle, the counts and the three slices
DS_ShuffleSplit ==
    /\ prog = "dataset" /\ pc = "process"
    /\ jidx > Len(json_files)
    /\ \E r \in RatioInputs : train_ratio' = r[1] /\ val_ratio' = r[2]
    /\ \E shuffled \in Perms(DOMAIN all_annotations) :
          /\ image_filenames' = shuffled
          /\ train_files' = split_train(shuffled, train_ratio', val_ratio')
          /\ val_files' = split_val(shuffled, train_ratio', val_ratio')
          /\ test_files' = split_test(shuffled, train_ratio', val_ratio')
          /\ LET c == Advance(<<train_files', val_files', test_files'>>, 1, 1)
             IN  split_i' = c[1] /\ file_i' = c[2]
    /\ pc' = "copy"
    /\ UNCHANGED <<prog, bboxVars, json_files, src_listing, src_labels, src_classes, annVars,
                   fileVars, descVars, countVars>>

\* one iteration of copy_to_split: the image is copied and the label file written
DS_CopyFile ==
    /\ prog = "dataset" /\ pc = "copy" /\ split_i <= 3
    /\ LET filename == CurFile
           annotation_data == all_annotations[filename]
           split == SplitName(split_i)
           base_name == splitext0(filename)
           c == Advance(Splits, split_i, file_i + 1)
       IN  /\ out_images' = out_images \cup {[split |-> split, filename |-> filename]}
           /\ out_labels' = WriteLabel(out_labels, split, base_name,
                                       annotation_data.yolo_annotations)
           /\ write_log' = write_log \o
                 <<LogEntry("image", split, filename, <<>>, 0),
                   LogEntry("label", split, filename, annotation_data.yolo_annotations, 0)>>
           /\ split_i' = c[1] /\ file_i' = c[2]
    /\ UNCHANGED <<prog, pc, bboxVars, inputVars, annVars, splitVars, io_failed, descVars,
                   countVars>>

\* shutil.copy2 raises: nothing catches it, create_yolo_dataset ends there
DS_CopyImageRaises ==
    /\ prog = "dataset" /\ pc = "copy" /\ split_i <= 3
    /\ io_failed' = io_failed \cup {CurFile}
    /\ pc' = "aborted"
    /\ UNCHANGED <<prog, bboxVars, inputVars, annVars, splitVars, cursorVars, out_images,
                   out_labels, write_log, descVars, countVars>>

\* the image is copied, open(dst_label_path, 'w') raises: nothing catches it
DS_LabelWriteRaises ==
    /\ prog = "dataset" /\ pc = "copy" /\ split_i <= 3
    /\ out_images' = out_images \cup {[split |-> SplitName(split_i), filename |-> CurFile]}
    /\ write_log' = Append(write_log, LogEntry("image", SplitName(split_i), CurFile, <<>>, 0))
    /\ io_failed' = io_failed \cup {CurFile}
    /\ pc' = "aborted"
    /\ UNCHANGED <<prog, bboxVars, inputVars, annVars, splitVars, cursorVars, out_labels,
                   descVars, countVars>>

\* sorted(class_mapping.items(), key=lambda x: x[1]), the names
NamesById(mapping) ==
    [i \in 1..Len(mapping) |-> (CHOOSE p \in Range(mapping) : p[2] = i - 1)[1]]

\* jsonINyolo.py create_yolo_yaml: nc and names from the dict
dataset_yaml_of(mapping) == [exists |-> TRUE, nc |-> Len(mapping), names |-> Keys(mapping)]

\* classes.txt in id order, then create_yolo_yaml
DS_WriteClassesAndYaml ==
    /\ prog = "dataset" /\ pc = "copy" /\ split_i = 4
    /\ classes_txt' = TextFile(NamesById(class_mapping))
    /\ dataset_yaml' = dataset_yaml_of(class_mapping)
    /\ pc' = "done"
    /\ UNCHANGED <<prog, bboxVars, inputVars, annVars, splitVars, cursorVars, fileVars,
                   countVars>>

NextDataset ==
    \/ DS_NoJsonFiles
    \/ DS_CreateClassMapping
    \/ DS_ProcessJson
    \/ DS_ShuffleSplit
    \/ DS_CopyFile
    \/ DS_CopyImageRaises
    \/ DS_LabelWriteRaises
    \/ DS_WriteClassesAndYaml

SpecDataset == InitDataset /\ [][NextDataset]_vars

(***************************************************************************)
(* raspred.py: create_yolo_structure and create_yolo_yaml                  *)
(***************************************************************************)
\* f.lower().endswith(('.jpg', '.jpeg', '.png', '.bmp'))
Lower(e) == IF e = "JPG" THEN "jpg" ELSE e
IsImage(f) == Lower(f.ext) \in {"jpg", "jpeg", "png", "bmp"}

\* str.strip(): leading and trailing white space (space, tab, LF, CR) removed
IsSpace(c) == c \in {32, 9, 10, 13}
RECURSIVE LStrip(_)
LStrip(s) == IF s # <<>> /\ IsSpace(s[1]) THEN LStrip(Tail(s)) ELSE s
RECURSIVE RStrip(_)
RStrip(s) == IF s # <<>> /\ IsSpace(s[Len(s)]) THEN RStrip(SubSeq(s, 1, Len(s) - 1)) ELSE s
PyStrip(s) == LStrip(RStrip(s))

\* [line.strip() for line in f if line.strip()]
RECURSIVE ReadClassNames(_)
ReadClassNames(lines) ==
    IF lines = <<>> THEN <<>>
    ELSE (IF PyStrip(Head(lines)) # <<>> THEN <<PyStrip(Head(lines))>> ELSE <<>>)
         \o ReadClassNames(Tail(lines))

\* raspred.py create_yolo_yaml: <<classes.txt after the call, dataset.yaml>>
structure_yaml(existing) ==
    LET class_names == IF existing.exists THEN ReadClassNames(existing.lines)
                       ELSE <<crayfish>>
    IN  <<IF existing.exists THEN existing ELSE TextFile(<<crayfish>>),
          [exists |-> TRUE, nc |-> Len(class_names), names |-> class_names]>>

LabelA == [name |-> "a", lines |-> <<"a-lines">>]
LabelB == [name |-> "b", lines |-> <<"b-lines">>]

ListingInputs == {NoDir} \cup {Dir(S \cup {notes_txt}) : S \in SUBSET {a_jpg, a_png, b_jpg}}
LabelDirInputs == {NoDir} \cup {Dir(S) : S \in SUBSET {LabelA, LabelB}}
SrcClassesInputs == {NoFile, TextFile(<<crab, fish>>)}
OldClassesInputs == {NoFile, TextFile(<<crab>>), TextFile(<<<<32>> \o fish \o <<32>>, <<>>, eel>>)}

InitStructure ==
    /\ prog = "structure" /\ pc = "start"
    /\ src_listing \in ListingInputs
    /\ src_labels \in LabelDirInputs
    /\ src_classes \in SrcClassesInputs
    /\ classes_txt \in OldClassesInputs
    /\ train_ratio = 0 /\ val_ratio = 0
    /\ json_files = <<>>
    /\ BBoxIdle /\ StateIdle

ImageFiles == {f \in src_listing.files : IsImage(f)}

\* the three early returns: no images directory, no labels directory, no image
ST_Return ==
    /\ prog = "structure" /\ pc = "start"
    /\ ~src_listing.exists \/ ~src_labels.exists \/ ImageFiles = {}
    /\ pc' = "returned"
    /\ UNCHANGED <<prog, bboxVars, inputVars, annVars, splitVars, cursorVars, fileVars,
                   descVars, countVars>>

\* random.shuffle(image_files), the counts and the three slices
ST_ShuffleSplit ==
    /\ prog = "structure" /\ pc = "start"
    /\ src_listing.exists /\ src_labels.exists /\ ImageFiles # {}
    /\ \E r \in RatioInputs : train_ratio' = r[1] /\ val_ratio' = r[2]
    /\ \E shuffled \in Perms(ImageFiles) :
          /\ image_filenames' = shuffled
          /\ train_files' = split_train(shuffled, train_ratio', val_ratio')
          /\ val_files' = split_val(shuffled, train_ratio', val_ratio')
          /\ test_files' = split_test(shuffled, train_ratio', val_ratio')
          /\ LET c == Advance(<<train_files', val_files', test_files'>>, 1, 1)
             IN  split_i' = c[1] /\ file_i' = c[2]
    /\ pc' = "copy"
    /\ UNCHANGED <<prog, bboxVars, json_files, src_listing, src_labels, src_classes, annVars,
                   fileVars, descVars, countVars>>

SrcLabel(name) == {l \in src_labels.files : l.name = name}

\* one iteration of `for image_file in files`: image copied, label copied if there
ST_CopyFile ==
    /\ prog = "structure" /\ pc = "copy" /\ split_i <= 3
    /\ LET image_file == CurFile
           split == SplitName(split_i)
           label_name == splitext0(image_file)
           c == Advance(Splits, split_i, file_i + 1)
       IN  /\ out_images' = out_images \cup {[split |-> split, filename |-> image_file]}
           /\ IF SrcLabel(label_name) # {}
              THEN LET l == CHOOSE x \in SrcLabel(label_name) : TRUE
                   IN  /\ out_labels' = WriteLabel(out_labels, split, label_name, l.lines)
                       /\ write_log' = write_log \o
                            <<LogEntry("image", split, image_file, <<>>, 0),
                              LogEntry("label", split, image_file, l.lines, 0)>>
              ELSE /\ out_labels' = out_labels
                   /\ write_log' = Append(write_log,
                                          LogEntry("image", split, image_file, <<>>, 0))
           /\ split_i' = c[1] /\ file_i' = c[2]
    /\ UNCHANGED <<prog, pc, bboxVars, inputVars, annVars, splitVars, io_failed, descVars,
                   countVars>>

\* shutil.copy2 of the image raises: nothing catches it
ST_CopyImageRaises ==
    /\ prog = "structure" /\ pc = "copy" /\ split_i <= 3
    /\ io_failed' = io_failed \cup {CurFile}
    /\ pc' = "aborted"
    /\ UNCHANGED <<prog, bboxVars, inputVars, annVars, splitVars, cursorVars, out_images,
                   out_labels, write_log, descVars, countVars>>

\* the image is copied, shutil.copy2 of the label raises: nothing catches it
ST_CopyLabelRaises ==
    /\ prog = "structure" /\ pc = "copy" /\ split_i <= 3
    /\ SrcLabel(splitext0(CurFile)) # {}
    /\ out_images' = out_images \cup {[split |-> SplitName(split_i), filename |-> CurFile]}
    /\ write_log' = Append(write_log, LogEntry("image", SplitName(split_i), CurFile, <<>>, 0))
    /\ io_failed' = io_failed \cup {CurFile}
    /\ pc' = "aborted"
    /\ UNCHANGED <<prog, bboxVars, inputVars, annVars, splitVars, cursorVars, out_labels,
                   descVars, countVars>>

\* lines 65-69: create_yolo_yaml(output_dir), and only then classes.txt is
\* copied from the source dataset when it has one
ST_YamlThenClasses ==
    /\ prog = "structure" /\ pc = "copy" /\ split_i = 4
    /\ LET y == structure_yaml(classes_txt)
       IN  /\ dataset_yaml' = y[2]
           /\ classes_txt' = IF src_classes.exists THEN src_classes ELSE y[1]
    /\ pc' = "done"
    /\ UNCHANGED <<prog, bboxVars, inputVars, annVars, splitVars, cursorVars, fileVars,
                   countVars>>

NextStructure ==
    \/ ST_Return
    \/ ST_ShuffleSplit
    \/ ST_CopyFile
    \/ ST_CopyImageRaises
    \/ ST_CopyLabelRaises
    \/ ST_YamlThenClasses

SpecStructure == InitStructure /\ [][NextStructure]_vars

(***************************************************************************)
(* jsonINyolo.py: simple_create_dataset                                    *)
(***************************************************************************)
\* all_data.update(data) on a dict keyed by image key: a key already there
\* keeps its place and takes the new value, a new key goes to the end
RECURSIVE UpdateByKey(_, _)
UpdateByKey(merged, data) ==
    IF data = <<>> THEN merged
    ELSE LET r == Head(data)
             next == IF \E i \in 1..Len(merged) : merged[i].key = r.key
                     THEN [i \in 1..Len(merged) |->
                              IF merged[i].key = r.key THEN r ELSE merged[i]]
                     ELSE Append(merged, r)
         IN  UpdateByKey(next, Tail(data))

RECURSIVE LoadAll(_, _)
LoadAll(merged, files) ==
    IF files = <<>> THEN merged
    ELSE LoadAll(IF Head(files).parse_ok THEN UpdateByKey(merged, Head(files).data)
                 ELSE merged,
                 Tail(files))

\* the loop over regions.items(): class id 0, the box is not clipped
RECURSIVE SimpleLines(_, _)
SimpleLines(regions, size) ==
    IF regions = <<>> THEN <<>>
    ELSE LET shape == Head(regions).shape_attributes
             b == IF "all_points_x" \in DOMAIN shape
                  THEN simple_bbox(shape.all_points_x, shape.all_points_y, size[1], size[2])
                  ELSE NoBox
         IN  (IF b = NoBox THEN <<>>
              ELSE << <<0, Fmt6(b[1]), Fmt6(b[2]), Fmt6(b[3]), Fmt6(b[4])>> >>)
             \o SimpleLines(Tail(regions), size)

InitSimple ==
    /\ prog = "simple" /\ pc = "start"
    /\ json_files \in JsonInputs
    /\ train_ratio = 0 /\ val_ratio = 0
    /\ src_listing = NoDir /\ src_labels = NoDir /\ src_classes = NoFile
    /\ classes_txt = NoFile
    /\ BBoxIdle /\ StateIdle

\* the os.walk loop that loads every .json file
SI_Load ==
    /\ prog = "simple" /\ pc = "start"
    /\ all_data' = LoadAll(<<>>, json_files)
    /\ pc' = "loop"
    /\ UNCHANGED <<prog, bboxVars, inputVars, class_mapping, all_annotations, jidx,
                   splitVars, cursorVars, fileVars, descVars, countVars>>

Rec == all_data[jidx]
RecLines == SimpleLines(Rec.regions, Disk(Rec.filename).size)
InLoop == prog = "simple" /\ pc = "loop" /\ jidx <= Len(all_data)
SimpleKeep == <<prog, pc, bboxVars, inputVars, class_mapping, all_annotations, all_data,
                splitVars, cursorVars, descVars>>

\* image not found, or found and not readable: error_count += 1; continue
SI_ImageError ==
    /\ InLoop
    /\ ~Disk(Rec.filename).found \/ ~Disk(Rec.filename).readable
    /\ error_count' = error_count + 1
    /\ jidx' = jidx + 1
    /\ UNCHANGED <<SimpleKeep, fileVars, processed_count>>

\* `if not regions: continue`
SI_NoRegions ==
    /\ InLoop
    /\ Disk(Rec.filename).found /\ Disk(Rec.filename).readable
    /\ ~Rec.has_regions \/ Rec.regions = <<>>
    /\ jidx' = jidx + 1
    /\ UNCHANGED <<SimpleKeep, fileVars, countVars>>

HasRegions ==
    /\ InLoop
    /\ Disk(Rec.filename).found /\ Disk(Rec.filename).readable
    /\ Rec.has_regions /\ Rec.regions # <<>>

\* `else` of `if yolo_lines`: "No valid annotations", error_count += 1
SI_NoValidLines ==
    /\ HasRegions
    /\ RecLines = <<>>
    /\ error_count' = error_count + 1
    /\ jidx' = jidx + 1
    /\ UNCHANGED <<SimpleKeep, fileVars, processed_count>>

\* the image is copied and the label file written
SI_Save ==
    /\ HasRegions
    /\ RecLines # <<>>
    /\ out_images' = out_images \cup {[split |-> "", filename |-> Rec.filename]}
    /\ out_labels' = WriteLabel(out_labels, "", splitext0(Rec.filename), RecLines)
    /\ write_log' = write_log \o
          <<LogEntry("image", "", Rec.filename, <<>>, jidx),
            LogEntry("label", "", Rec.filename, RecLines, jidx)>>
    /\ processed_count' = processed_count + 1
    /\ jidx' = jidx + 1
    /\ UNCHANGED <<SimpleKeep, io_failed, error_count>>

\* shutil.copy2 raises inside the try: error_count += 1, the loop goes on
SI_CopyRaises ==
    /\ HasRegions
    /\ RecLines # <<>>
    /\ io_failed' = io_failed \cup {Rec.filename}
    /\ error_count' = error_count + 1
    /\ jidx' = jidx + 1
    /\ UNCHANGED <<SimpleKeep, out_images, out_labels, write_log, processed_count>>

\* the image is copied, open() of the label raises inside the try
SI_LabelRaises ==
    /\ HasRegions
    /\ RecLines # <<>>
    /\ out_images' = out_images \cup {[split |-> "", filename |-> Rec.filename]}
    /\ write_log' = Append(write_log, LogEntry("image", "", Rec.filename, <<>>, jidx))
    /\ io_failed' = io_failed \cup {Rec.filename}
    /\ error_count' = error_count + 1
    /\ jidx' = jidx + 1
    /\ UNCHANGED <<SimpleKeep, out_labels, processed_count>>

\* after the loop: classes.txt is the one line "crayfish"
SI_WriteClasses ==
    /\ prog = "simple" /\ pc = "loop" /\ jidx > Len(all_data)
    /\ classes_txt' = TextFile(<<crayfish>>)
    /\ pc' = "done"
    /\ UNCHANGED <<prog, bboxVars, inputVars, annVars, splitVars, cursorVars, fileVars,
                   dataset_yaml, countVars>>

NextSimple ==
    \/ SI_Load
    \/ SI_ImageError
    \/ SI_NoRegions
    \/ SI_NoValidLines
    \/ SI_Save
    \/ SI_CopyRaises
    \/ SI_LabelRaises
    \/ SI_WriteClasses

SpecSimple == InitSimple /\ [][NextSimple]_vars

(***************************************************************************)
(* The three file pipelines together: the entry point is chosen at start.  *)
(***************************************************************************)
Init == InitDataset \/ InitStructure \/ InitSimple

Next == NextDataset \/ NextStructure \/ NextSimple

Spec == Init /\ [][Next]_vars

(***************************************************************************)
(* Properties.                                                             *)
(***************************************************************************)
SetMin(S) == CHOOSE m \in S : \A v \in S : m <= v
SetMax(S) == CHOOSE m \in S : \A v \in S : m >= v
Split3 == {1, 2, 3}
AfterSplit == prog \in {"dataset", "structure"} /\ pc \in {"copy", "done", "aborted"}
PermsOfSeq(s) == {[i \in 1..Len(s) |-> s[p[i]]] : p \in Perms(1..Len(s))}

\* ---- C6 ----------------------------------------------------------------
VertexInside(i) ==
    /\ 0 <= all_points_x[i] /\ all_points_x[i] <= img_width
    /\ 0 <= all_points_y[i] /\ all_points_y[i] <= img_height
Vertices == 1..Len(all_points_x)
PartlyOutside == (\E i \in Vertices : VertexInside(i)) /\ (\E i \in Vertices : ~VertexInside(i))
ClipXMin == Max2(0, SetMin(Range(all_points_x)))
ClipXMax == Min2(img_width, SetMax(Range(all_points_x)))
ClipYMin == Max2(0, SetMin(Range(all_points_y)))
ClipYMax == Min2(img_height, SetMax(Range(all_points_y)))
\* the box, scaled back to pixels, has exactly the clipped bounds
DenormalizesToClip ==
    /\ bbox # NoBox
    /\ REqInt(RTimes(RSub(bbox[1], RHalf(bbox[3])), img_width), ClipXMin)
    /\ REqInt(RTimes(RAdd(bbox[1], RHalf(bbox[3])), img_width), ClipXMax)
    /\ REqInt(RTimes(RSub(bbox[2], RHalf(bbox[4])), img_height), ClipYMin)
    /\ REqInt(RTimes(RAdd(bbox[2], RHalf(bbox[4])), img_height), ClipYMax)
\* the bounding box of the vertices has no interior point in the image
BoundsOutside ==
    \/ SetMax(Range(all_points_x)) <= 0 \/ SetMin(Range(all_points_x)) >= img_width
    \/ SetMax(Range(all_points_y)) <= 0 \/ SetMin(Range(all_points_y)) >= img_height

\* C6 as stated: every polygon with a vertex inside the image and a vertex
\* outside it gets a box that denormalizes exactly to the clipped bounds, and
\* every polygon with no vertex inside the image gets None.
C6_AsStated ==
    (prog = "bbox" /\ pc = "done") =>
        /\ PartlyOutside => DenormalizesToClip
        /\ (\A i \in Vertices : ~VertexInside(i)) => bbox = NoBox

\* C6 amended: a polygon with a vertex inside and a vertex outside gets a box
\* exactly when its clipped bounds have positive width and height, and that
\* box denormalizes exactly to the clipped bounds; a polygon whose bounding
\* box misses the interior of the image gets None.
C6_ClippedBox ==
    (prog = "bbox" /\ pc = "done") =>
        /\ (PartlyOutside /\ ClipXMin < ClipXMax /\ ClipYMin < ClipYMax) => DenormalizesToClip
        /\ (PartlyOutside /\ ~(ClipXMin < ClipXMax /\ ClipYMin < ClipYMax)) => bbox = NoBox
        /\ BoundsOutside => bbox = NoBox

C6_Witness ==
    /\ prog = "bbox" /\ pc = "done"
    /\ PartlyOutside /\ bbox # NoBox
    /\ SetMin(Range(all_points_x)) < 0 /\ SetMax(Range(all_points_y)) > img_height

\* ---- C1 ----------------------------------------------------------------
\* C1: after the split the three slices are pairwise disjoint, together they
\* are the whole (duplicate-free) filename list, and their lengths add up to
\* the total, for every permutation the shuffle produced.
C1_SplitPartitions ==
    AfterSplit =>
        /\ Range(image_filenames) =
              (IF prog = "dataset" THEN DOMAIN all_annotations ELSE ImageFiles)
        /\ Cardinality(Range(image_filenames)) = Len(image_filenames)
        /\ Len(train_files) + Len(val_files) + Len(test_files) = Len(image_filenames)
        /\ Range(train_files) \cap Range(val_files) = {}
        /\ Range(train_files) \cap Range(test_files) = {}
        /\ Range(val_files) \cap Range(test_files) = {}
        /\ Range(train_files) \cup Range(val_files) \cup Range(test_files)
              = Range(image_filenames)

C1_Witness ==
    /\ AfterSplit /\ prog = "dataset"
    /\ train_files # <<>> /\ val_files # <<>> /\ test_files # <<>>
    /\ train_ratio + val_ratio = RatioDen

\* ---- C2 ----------------------------------------------------------------
Labelled(si, f) ==
    IF prog = "dataset"
    THEN \E l \in out_labels : l.split = SplitName(si) /\ l.name = splitext0(f)
    ELSE SrcLabel(splitext0(f)) # {} =>
            \E l \in out_labels : l.split = SplitName(si) /\ l.name = splitext0(f)

\* C2: when the run has ended, every file of every split other than the ones
\* whose copy or label write failed has been copied and labelled, and
\* classes.txt and dataset.yaml have been written.
C2_FailureSkipsOneFile ==
    (prog \in {"dataset", "structure"} /\ pc \in {"done", "aborted"}) =>
        /\ \A si \in Split3 : \A f \in Range(Splits[si]) :
              f \notin io_failed =>
                 /\ [split |-> SplitName(si), filename |-> f] \in out_images
                 /\ Labelled(si, f)
        /\ classes_txt.exists /\ dataset_yaml.exists

\* ---- C3 ----------------------------------------------------------------
\* every class name a region of a parseable annotation file carries
RegionNames(files) ==
    {extract_class_from_region(r.region_attributes) :
        r \in UNION {Range(img.regions) :
                       img \in UNION {Range(j.data) : j \in {x \in Range(files) : x.parse_ok}}}}
MappingBuilt == prog = "dataset" /\ pc \in {"process", "copy", "done", "aborted"}
\* class_mapping, json_files and all_annotations change in no later step: the
\* states of the processing loop, the last of which has every file merged
Merging == prog = "dataset" /\ pc = "process"
\* the mapping is the bijection names -> 0..N-1 by lexicographic rank
RankBijection(names) ==
    /\ Len(class_mapping) = Cardinality(names)
    /\ {p[1] : p \in Range(class_mapping)} = names
    /\ \A p \in Range(class_mapping) : p[2] = Cardinality({n \in names : StrLess(n, p[1])})
OrderIndependent ==
    \A files \in PermsOfSeq(json_files) : create_class_mapping_from_jsons(files) = class_mapping

\* C3 as stated: the mapping is the rank bijection on the names other than
\* "unknown", and is the same for every order of the annotation files.
C3_AsStated ==
    Merging => RankBijection(RegionNames(json_files) \ {unknown}) /\ OrderIndependent

\* C3 amended: the mapping is the rank bijection on the non-empty names other
\* than "unknown", and is the same for every order of the annotation files.
C3_RankOfNonEmptyNames ==
    Merging =>
        RankBijection(RegionNames(json_files) \ {unknown, empty_str}) /\ OrderIndependent

C3_Witness ==
    /\ MappingBuilt /\ Len(json_files) = 2 /\ json_files[1] # json_files[2]
    /\ empty_str \in RegionNames(json_files)
    /\ Len(class_mapping) >= 3
    /\ \A i \in 1..2 : json_files[i].parse_ok
    /\ CreateMappingUnsorted(json_files) # class_mapping

\* ---- C5 ----------------------------------------------------------------
IndexedRegions ==
    UNION {Range(img.regions) :
             img \in UNION {Range(j.data) : j \in {x \in Range(json_files) : x.parse_ok}}}

\* C5 as stated: every indexed region whose class name is not "unknown" has
\* its name in the mapping and is not skipped as an unknown class.
C5_AsStated ==
    Merging =>
        \A r \in IndexedRegions :
            extract_class_from_region(r.region_attributes) # unknown =>
                /\ HasKey(class_mapping, extract_class_from_region(r.region_attributes))
                /\ ~UnknownClass(r, class_mapping)

\* C5 amended: every indexed region whose class name is neither "unknown"
\* nor the empty string has its name in the mapping and is not skipped as an
\* unknown class.
C5_NamedRegionsAreMapped ==
    Merging =>
        \A r \in IndexedRegions :
            extract_class_from_region(r.region_attributes) \notin {unknown, empty_str} =>
                /\ HasKey(class_mapping, extract_class_from_region(r.region_attributes))
                /\ ~UnknownClass(r, class_mapping)

C5_Witness ==
    /\ Merging /\ jidx > Len(json_files)
    /\ \E j \in Range(json_files) : j.parse_ok /\ \E img \in Range(j.data) :
          /\ Len(img.regions) >= 2
          /\ extract_class_from_region(img.regions[2].region_attributes) = Zander
          /\ HasKey(class_mapping, Zander)
          /\ img.filename \in DOMAIN all_annotations
          /\ all_annotations[img.filename].yolo_annotations # <<>>

\* ---- C8 ----------------------------------------------------------------
FileNames == {a_jpg, a_png, b_jpg, c_jpg, d_jpg}
\* the annotation files among the first k that yield an entry for f
Producers(f, k) ==
    {i \in 1..k : f \in DOMAIN process_single_json(json_files[i], class_mapping)}

\* C8: once the first k annotation files are merged, the entry of a filename
\* is the entry the last of them that produced one gave it; a filename none
\* of them produced has no entry.
C8_LastWriteWins ==
    Merging =>
        \A f \in FileNames :
            IF Producers(f, jidx - 1) = {} THEN f \notin DOMAIN all_annotations
            ELSE /\ f \in DOMAIN all_annotations
                 /\ all_annotations[f] =
                       process_single_json(json_files[SetMax(Producers(f, jidx - 1))],
                                           class_mapping)[f]

C8_Witness ==
    /\ MappingBuilt /\ jidx = 3
    /\ \E f \in FileNames :
          /\ Producers(f, 2) = {1, 2}
          /\ process_single_json(json_files[1], class_mapping)[f]
                # process_single_json(json_files[2], class_mapping)[f]
    /\ \E g \in FileNames : Producers(g, 2) = {1}

\* ---- C9 ----------------------------------------------------------------
\* the annotation file with its unknown-class regions taken out
WithoutUnknownRegions(json) ==
    [json EXCEPT !.data =
        [i \in 1..Len(json.data) |->
            [json.data[i] EXCEPT !.regions =
                SelectSeq(@, LAMBDA r : ~UnknownClass(r, class_mapping))]]]

RECURSIVE MergedWithoutUnknown(_)
MergedWithoutUnknown(k) ==
    IF k = 0 THEN EmptyDict
    ELSE DictUpdate(MergedWithoutUnknown(k - 1),
                    process_single_json(WithoutUnknownRegions(json_files[k]), class_mapping))

KnownRegions(img) == SelectSeq(img.regions, LAMBDA r : ~UnknownClass(r, class_mapping))

\* C9: the entries built from the annotation files processed so far are the
\* ones the same files give with their unknown-class regions taken out, and
\* no image has more label lines than regions of a known class.
C9_UnknownClassSkipped ==
    Merging =>
        /\ all_annotations = MergedWithoutUnknown(jidx - 1)
        /\ \A i \in 1..(jidx - 1) : \A img \in Range(json_files[i].data) :
              (json_files[i].parse_ok /\ Producers(img.filename, jidx - 1) = {i}
               /\ Cardinality({k \in 1..Len(json_files[i].data) :
                                 json_files[i].data[k].filename = img.filename}) = 1)
              => Len(all_annotations[img.filename].yolo_annotations) <= Len(KnownRegions(img))

C9_Witness ==
    /\ MappingBuilt /\ jidx = 2 /\ json_files[1].parse_ok
    /\ \E img \in Range(json_files[1].data) :
          /\ Len(img.regions) = 3
          /\ UnknownClass(img.regions[2], class_mapping)
          /\ ~UnknownClass(img.regions[3], class_mapping)
          /\ img.filename \in DOMAIN all_annotations
          /\ Len(all_annotations[img.filename].yolo_annotations) = 2
    /\ Cardinality(DOMAIN all_annotations) = 2

\* ---- C10 ---------------------------------------------------------------
\* C10: when create_yolo_dataset has completed, the label file of every
\* image of every split holds exactly that image's label lines.
C10_OwnLabelLines ==
    (prog = "dataset" /\ pc = "done") =>
        \A si \in Split3 : \A f \in Range(Splits[si]) :
            [split |-> SplitName(si), name |-> splitext0(f),
             lines |-> all_annotations[f].yolo_annotations] \in out_labels

\* ---- C4 ----------------------------------------------------------------
\* C4: when create_yolo_dataset or create_yolo_structure has completed,
\* dataset.yaml and classes.txt exist, nc is the number of class names in
\* classes.txt and names lists them in the same order.
C4_YamlMatchesClassesTxt ==
    (prog \in {"dataset", "structure"} /\ pc = "done") =>
        /\ dataset_yaml.exists /\ classes_txt.exists
        /\ dataset_yaml.nc = Len(ReadClassNames(classes_txt.lines))
        /\ dataset_yaml.names = ReadClassNames(classes_txt.lines)

\* ---- C7 ----------------------------------------------------------------
Resolves(r) == Disk(r.filename).found /\ Disk(r.filename).readable
\* the positions <<file, record>> of the annotation files processed so far
Processed ==
    UNION {{<<i, k>> : k \in 1..Len(json_files[i].data)} :
             i \in {x \in 1..(jidx - 1) : json_files[x].parse_ok}}
RecordAt(q) == json_files[q[1]].data[q[2]]
LinesOf(r) == RegionLoop(r.regions, class_mapping, Disk(r.filename).size)
IsLater(q, p) == q[1] > p[1] \/ (q[1] = p[1] /\ q[2] > p[2])
SplitOf(f) == CHOOSE si \in Split3 : f \in Range(Splits[si])
Logged(e) == \E n \in 1..Len(write_log) : write_log[n] = e
EmptyLabelled == {f \in DOMAIN all_annotations : all_annotations[f].yolo_annotations = <<>>}

\* default pipeline: recorded, with an empty list unless a later record of the
\* same filename replaced it
C7_Recorded ==
    MappingBuilt =>
        \A p \in Processed :
            (Resolves(RecordAt(p)) /\ LinesOf(RecordAt(p)) = <<>>) =>
                /\ RecordAt(p).filename \in DOMAIN all_annotations
                /\ (\A q \in Processed :
                       ~(IsLater(q, p) /\ RecordAt(q).filename = RecordAt(p).filename
                         /\ Resolves(RecordAt(q))))
                   => RecordAt(p).filename \in EmptyLabelled

\* default pipeline: in exactly one split, at exactly one place
C7_InOneSplit ==
    (prog = "dataset" /\ AfterSplit) =>
        \A f \in EmptyLabelled :
            Cardinality({c \in Split3 \X (1..Len(image_filenames)) :
                           c[2] <= Len(Splits[c[1]]) /\ Splits[c[1]][c[2]] = f}) = 1

\* default pipeline: image copied and an empty label file written
C7_CopiedWithEmptyLabel ==
    (prog = "dataset" /\ pc = "done") =>
        \A f \in EmptyLabelled :
            /\ [split |-> SplitName(SplitOf(f)), filename |-> f] \in out_images
            /\ Logged(LogEntry("image", SplitName(SplitOf(f)), f, <<>>, 0))
            /\ Logged(LogEntry("label", SplitName(SplitOf(f)), f, <<>>, 0))
            /\ (\A g \in Range(Splits[SplitOf(f)]) : splitext0(g) = splitext0(f) => g = f)
               => [split |-> SplitName(SplitOf(f)), name |-> splitext0(f), lines |-> <<>>]
                     \in out_labels

\* simplified pipeline: nothing is copied or written for a record without a
\* valid label line
C7_SimpleDropsEmpty ==
    (prog = "simple" /\ pc \in {"loop", "done"}) =>
        \A i \in 1..(jidx - 1) :
            SimpleLines(all_data[i].regions, Disk(all_data[i].filename).size) = <<>> =>
                /\ \A n \in 1..Len(write_log) : write_log[n].rec # i
                /\ (\A k \in 1..Len(all_data) :
                        splitext0(all_data[k].filename) = splitext0(all_data[i].filename)
                        => k = i)
                   => /\ \A x \in out_images : x.filename # all_data[i].filename
                      /\ \A l \in out_labels : l.name # splitext0(all_data[i].filename)

\* C7: in the default pipeline an image that resolves and ends with no label
\* line is recorded with an empty list, is in exactly one split, and after
\* the run its image is copied and an empty label file was written; in the
\* simplified pipeline nothing is copied or written for such an image.
C7_EmptyImages ==
    C7_Recorded /\ C7_InOneSplit /\ C7_CopiedWithEmptyLabel /\ C7_SimpleDropsEmpty

C7_Witness ==
    /\ prog = "dataset" /\ pc = "done"
    /\ \E f \in EmptyLabelled :
          /\ [split |-> SplitName(SplitOf(f)), name |-> splitext0(f), lines |-> <<>>]
                \in out_labels
          /\ \E g \in DOMAIN all_annotations : g \notin EmptyLabelled /\ SplitOf(g) = SplitOf(f)

====
